---------------------------- MODULE Spec2Model ----------------------------
(***************************************************************************)
(* A model of the CIF boundary predictor (funasr/export/models/predictor/  *)
(* cif.py) and of the punctuation scorer (funasr/punctuation/              *)
(* espnet_model.py).                                                       *)
(*                                                                         *)
(* Tensors are sequences indexed from 1: a (B, T) tensor is a sequence of  *)
(* B rows of length T, a (B, T, D) tensor a sequence of B rows of T        *)
(* vectors of length D.  Real numbers are fixed-point integers counted in  *)
(* units of 1/One, so that One stands for the literal 1.0 of the source    *)
(* and every sum and difference of the source is exact in the model.       *)
(***************************************************************************)
EXTENDS Integers, Sequences, FiniteSets

\* The value 1.0 (torch.ones) in fixed-point units.
One == 2

\* Bound: the number of (batch, time) cells of an input of cif.
MaxCells == 4

\* Bound: hidden_size, the length of a frame vector.
HiddenDim == 2

\* Alpha values fed to cif: 0, 0.5, 1.0, 1.5 (everything below 2 * 1.0).
AlphaVals == 0 .. (2 * One - 1)

\* Thresholds a predictor can be configured with: 0.5, 1.0, 1.5.
ThresholdVals == {One - 1, One, One + 1}

\* Tail thresholds a predictor can be configured with: 0.5, 1.0.
TailVals == {One - 1, One}

\* Bound: the number of rows (total_num) of a batch handed to the scorer.
MaxBatch == 3

\* Bound: the length of a text of the scorer's batch.
MaxTextLen == 2

\* Bound: the columns a batch is padded with beyond its longest text (a batch
\* split for data parallel keeps the width of the whole batch).
MaxPad == 1

\* Values of sklearn's f1_score: 0.0 and 1.0.
F1Vals == {0, One}

VARIABLES
    prog,            \* "cif": cif is called directly; "tail": on tail_process_fn's output
    in_hidden,       \* the caller's hidden, (B, T, D)
    in_alphas,       \* the caller's alphas, (B, T)
    mask,            \* the caller's 0/1 frame mask, (B, T)
    threshold,       \* self.threshold
    tail_threshold,  \* self.tail_threshold
    hidden,          \* cif's argument hidden
    alphas,          \* cif's argument alphas
    token_num_floor, \* tail_process_fn's third result
    pc,              \* "tail", "call", "loop", "done" or "raised"
    t,               \* the number of loop iterations of cif completed
    integrate,       \* cif's loop variable integrate, (B)
    frame,           \* cif's loop variable frame, (B, D)
    list_fires,      \* cif's list_fires: one (B) entry per iteration
    list_frames,     \* cif's list_frames: one (B, D) entry per iteration
    fires,           \* cif's second result, (B, T)
    frame_fires,     \* cif's first result, (B, M, D)
    entry,           \* the method called: "nll" or "batchify_nll"
    text_lengths,    \* batchify_nll's text_lengths, (total_num)
    loss,            \* F.cross_entropy(y, punc, reduction="none") of the padded batch
    batch_size,      \* batchify_nll's batch_size, the chunk size
    training,        \* self.training
    spc,             \* "idle", "call", "chunks", "done" or "raised"
    start_idx,       \* batchify_nll's start_idx
    nlls,            \* batchify_nll's list nlls
    x_lengths,       \* batchify_nll's list x_lengths
    out_nll,         \* batchify_nll's first result
    out_lengths,     \* batchify_nll's second result
    error,           \* the exception a call ended with
    last_call        \* the arguments and the result of the latest call of nll

cifVars == <<prog, in_hidden, in_alphas, mask, threshold, tail_threshold, hidden,
             alphas, token_num_floor, pc, t, integrate, frame, list_fires,
             list_frames, fires, frame_fires>>

scVars == <<entry, text_lengths, loss, batch_size, training, spc, start_idx, nlls,
            x_lengths, out_nll, out_lengths, error, last_call>>

vars == <<cifVars, scVars>>

-----------------------------------------------------------------------------
(* Helpers on sequences.                                                   *)

RECURSIVE SumSeq(_)
SumSeq(s) == IF s = <<>> THEN 0 ELSE Head(s) + SumSeq(Tail(s))

RECURSIVE MaxSeq(_)
MaxSeq(s) == IF Len(s) = 1 THEN s[1]
             ELSE LET m == MaxSeq(Tail(s)) IN IF s[1] >= m THEN s[1] ELSE m

Zeros(n) == [i \in 1..n |-> 0]

\* Floor division for fixed-point values of either sign.
Floor(x) == x \div One

-----------------------------------------------------------------------------
(* sequence_mask: row b is 1 at the positions below lengths[b].           *)

sequence_mask(lengths, maxlen) ==
    [b \in 1..Len(lengths) |-> [j \in 1..maxlen |-> IF j - 1 < lengths[b] THEN 1 ELSE 0]]

-----------------------------------------------------------------------------
(* CifPredictorV2.tail_process_fn.                                         *)

\* mask_1 = cat([mask, zeros_t]); mask_2 = cat([ones_t, mask]); mask_2 - mask_1.
TailMask(m) ==
    [b \in 1..Len(m) |->
        LET mask_1 == m[b] \o <<0>>
            mask_2 == <<1>> \o m[b]
        IN [j \in 1..Len(mask_1) |-> mask_2[j] - mask_1[j]]]

\* tail_threshold = mask * tail_threshold; alphas = cat([alphas, tail_threshold]).
TailAlphas(a, m, tail) ==
    [b \in 1..Len(a) |->
        a[b] \o [j \in 1..Len(TailMask(m)[b]) |-> TailMask(m)[b][j] * tail]]

\* hidden = cat([hidden, zeros((b, 1, d))]).
TailHidden(h) == [b \in 1..Len(h) |-> h[b] \o <<Zeros(HiddenDim)>>]

\* token_num_floor = floor(alphas.sum(-1)).
TokenNumFloor(a) == [b \in 1..Len(a) |-> Floor(SumSeq(a[b]))]

-----------------------------------------------------------------------------
(* cif: one iteration of the loop over time, on the loop state             *)
(* st = [integrate, frame, list_fires, list_frames].                       *)

FirePlace(integ, thr) == integ >= thr

\* A reset that drops the mass beyond the threshold.
FireResetToZero(integ) == 0

\* integrate after a firing iteration.
FireReset(integ) == integ - One

\* A completion that ignores the mass already accumulated.
CompletionWhole(integ) == One

\* distribution_completion of an iteration.
Completion(integ) == One - integ

LoopBody(st, h, a, thr, step) ==
    LET B == Len(h)
        alpha == [b \in 1..B |-> a[b][step]]
        distribution_completion == [b \in 1..B |-> Completion(st.integrate[b])]
        integ1 == [b \in 1..B |-> st.integrate[b] + alpha[b]]
        fire_place == [b \in 1..B |-> FirePlace(integ1[b], thr)]
        integ2 == [b \in 1..B |-> IF fire_place[b] THEN FireReset(integ1[b]) ELSE integ1[b]]
        cur == [b \in 1..B |-> IF fire_place[b] THEN distribution_completion[b] ELSE alpha[b]]
        remainds == [b \in 1..B |-> alpha[b] - cur[b]]
        frame1 == [b \in 1..B |-> [d \in 1..HiddenDim |->
                      st.frame[b][d] + cur[b] * h[b][step][d]]]
        frame2 == [b \in 1..B |-> [d \in 1..HiddenDim |->
                      IF fire_place[b] THEN remainds[b] * h[b][step][d] ELSE frame1[b][d]]]
    IN [integrate |-> integ2,
        frame |-> frame2,
        list_fires |-> Append(st.list_fires, integ1),
        list_frames |-> Append(st.list_frames, frame1)]

\* The loop state before the first iteration.
LoopInit(h) ==
    [integrate |-> Zeros(Len(h)),
     frame |-> [b \in 1..Len(h) |-> Zeros(HiddenDim)],
     list_fires |-> <<>>,
     list_frames |-> <<>>]

\* len_time of hidden.size(): every row has the same length.
LenTime(h) == Len(h[1])

RECURSIVE LoopFrom(_, _, _, _, _)
LoopFrom(st, h, a, thr, done) ==
    IF done = LenTime(h) THEN st
    ELSE LoopFrom(LoopBody(st, h, a, thr, done + 1), h, a, thr, done + 1)

\* torch.stack(list, 1): from one (B) entry per step to one row per batch element.
Stack(list, B) == [b \in 1..B |-> [s \in 1..Len(list) |-> list[s][b]]]

\* The positions of a row of fires that are at least the threshold, in order.
RECURSIVE FirePositions(_, _, _)
FirePositions(row, thr, from) ==
    IF from > Len(row) THEN <<>>
    ELSE (IF row[from] >= thr THEN <<from>> ELSE <<>>) \o FirePositions(row, thr, from + 1)

\* frames[b, fire_idxs[b]]: the recorded frames of row b at its firing positions.
FrameFire(frames_b, fires_b, thr) ==
    LET pos == FirePositions(fires_b, thr, 1)
    IN [k \in 1..Len(pos) |-> frames_b[pos[k]]]

\* A max_label_len that is never raised beyond the count of element 0.
MaxLabelLenOfFirst(counts) == counts[1]

\* max_label_len: starts as the count of element 0, raised by every element's count.
MaxLabelLen(counts) == MaxSeq(counts)

\* Lines 161-175: the padded token embeddings, (B, max_label_len, D).
Select(fs, frs, thr) ==
    LET B == Len(fs)
        frame_fire == [b \in 1..B |-> FrameFire(frs[b], fs[b], thr)]
        max_label_len == MaxLabelLen([b \in 1..B |-> Len(frame_fire[b])])
    IN [b \in 1..B |-> [k \in 1..max_label_len |->
           IF k <= Len(frame_fire[b]) THEN frame_fire[b][k] ELSE Zeros(HiddenDim)]]

\* The fire trace of a whole call of cif (defined for len_time >= 1).
CifFires(h, a, thr) == Stack(LoopFrom(LoopInit(h), h, a, thr, 0).list_fires, Len(h))

\* The number of firings of one row of a fire trace.
FireCount(row, thr) == Len(FirePositions(row, thr, 1))

-----------------------------------------------------------------------------
(* Inputs.                                                                 *)

Shapes == {s \in (1..MaxCells) \X (0..MaxCells) : s[1] * s[2] <= MaxCells}

\* The frames of a (B, T, D) input: pairwise distinct vectors.
Frames(B, T) == [b \in 1..B |-> [s \in 1..T |-> [d \in 1..HiddenDim |-> b + s * d]]]

\* alphas * mask of forward(): nothing beyond a row's true length.
Masked(a, m) == [b \in 1..Len(a) |-> [s \in 1..Len(a[b]) |-> a[b][s] * m[b][s]]]

Idle == <<>>

\* The scorer is not running.
ScorerIdle ==
    /\ entry = "idle"
    /\ text_lengths = Idle
    /\ loss = Idle
    /\ batch_size = 0
    /\ training = FALSE
    /\ spc = "idle"
    /\ start_idx = 0
    /\ nlls = Idle
    /\ x_lengths = Idle
    /\ out_nll = Idle
    /\ out_lengths = Idle
    /\ error = ""
    /\ last_call = Idle

\* The inputs of a run of the predictor.
InitCif ==
    \E s \in Shapes :
      \E a \in [1..s[1] -> [1..s[2] -> AlphaVals]] :
        \E lens \in [1..s[1] -> 0..s[2]] :
          \E p \in {"cif", "tail"} :
            /\ prog = p
            /\ p = "cif" => \A b \in 1..s[1] : lens[b] = s[2]
            /\ mask = sequence_mask(lens, s[2])
            /\ a = Masked(a, mask)
            /\ in_alphas = a
            /\ in_hidden = Frames(s[1], s[2])
            /\ threshold \in ThresholdVals
            /\ tail_threshold \in (IF p = "tail" THEN TailVals ELSE {One})
            /\ hidden = in_hidden
            /\ alphas = in_alphas
            /\ token_num_floor = Idle
            /\ pc = IF p = "tail" THEN "tail" ELSE "call"
            /\ t = 0
            /\ integrate = Idle
            /\ frame = Idle
            /\ list_fires = Idle
            /\ list_frames = Idle
            /\ fires = Idle
            /\ frame_fires = Idle

Init == ScorerIdle /\ InitCif

\* tail_process_fn(hidden, alphas, mask=mask), whose results are handed to cif.
TailProcessFn ==
    /\ UNCHANGED scVars
    /\ pc = "tail"
    /\ hidden' = TailHidden(in_hidden)
    /\ alphas' = TailAlphas(in_alphas, mask, tail_threshold)
    /\ token_num_floor' = TokenNumFloor(alphas')
    /\ pc' = "call"
    /\ UNCHANGED <<prog, in_hidden, in_alphas, mask, threshold, tail_threshold, t,
                   integrate, frame, list_fires, list_frames, fires, frame_fires>>

\* cif, lines 129-137: the loop variables.
CifBegin ==
    /\ UNCHANGED scVars
    /\ pc = "call"
    /\ integrate' = LoopInit(hidden).integrate
    /\ frame' = LoopInit(hidden).frame
    /\ list_fires' = LoopInit(hidden).list_fires
    /\ list_frames' = LoopInit(hidden).list_frames
    /\ t' = 0
    /\ pc' = "loop"
    /\ UNCHANGED <<prog, in_hidden, in_alphas, mask, threshold, tail_threshold,
                   hidden, alphas, token_num_floor, fires, frame_fires>>

\* cif, lines 139-159: one iteration of the loop over time.
CifLoop ==
    /\ UNCHANGED scVars
    /\ pc = "loop"
    /\ t < LenTime(hidden)
    /\ LET st == LoopBody([integrate |-> integrate, frame |-> frame,
                           list_fires |-> list_fires, list_frames |-> list_frames],
                          hidden, alphas, threshold, t + 1)
       IN /\ integrate' = st.integrate
          /\ frame' = st.frame
          /\ list_fires' = st.list_fires
          /\ list_frames' = st.list_frames
    /\ t' = t + 1
    /\ UNCHANGED <<prog, in_hidden, in_alphas, mask, threshold, tail_threshold,
                   hidden, alphas, token_num_floor, pc, fires, frame_fires>>

\* cif, lines 161-175.  torch.stack raises on an empty list (len_time = 0).
CifFinish ==
    /\ UNCHANGED scVars
    /\ pc = "loop"
    /\ t = LenTime(hidden)
    /\ IF list_fires = <<>>
       THEN /\ pc' = "raised"
            /\ UNCHANGED <<fires, frame_fires>>
       ELSE /\ pc' = "done"
            /\ fires' = Stack(list_fires, Len(hidden))
            /\ frame_fires' = Select(fires', Stack(list_frames, Len(hidden)), threshold)
    /\ UNCHANGED <<prog, in_hidden, in_alphas, mask, threshold, tail_threshold,
                   hidden, alphas, token_num_floor, t, integrate, frame, list_fires,
                   list_frames>>

-----------------------------------------------------------------------------
(* ESPnetPunctuationModel.nll and batchify_nll.                            *)
(*                                                                         *)
(* The punctuation model and F.cross_entropy are opaque: loss[b][j] is the *)
(* unmasked cross entropy of row b at position j of the padded batch.  An  *)
(* optional max_length is <<>> (None) or <<n>>.                            *)

RECURSIVE Flatten(_)
Flatten(m) == IF m = <<>> THEN <<>> ELSE Head(m) \o Flatten(Tail(m))

Min(a, b) == IF a <= b THEN a ELSE b

\* make_pad_mask(lengths, maxlen=maxlen): (B, maxlen), TRUE at the padded positions.
MakePadMask(lengths, maxlen) ==
    [b \in 1..Len(lengths) |-> [j \in 1..maxlen |-> j - 1 >= lengths[b]]]

\* The maxlen the padding mask of nll is built with.
PadMaskLen(lengths, max_length) ==
    IF max_length = <<>> THEN MaxSeq(lengths) ELSE max_length[1] + 1

\* The length nll cuts text and punc to.
CutLen(lengths, max_length) ==
    IF max_length = <<>> THEN MaxSeq(lengths) ELSE max_length[1]

\* Tensor.masked_fill_(mask, 0.0) on flat tensors: the mask must broadcast to the
\* tensor's shape, or a RuntimeError is raised.
MaskedFill(flat, m) ==
    IF Len(m) = Len(flat)
    THEN [raised |-> FALSE, data |-> [i \in 1..Len(flat) |-> IF m[i] THEN 0 ELSE flat[i]]]
    ELSE IF Len(m) = 1
    THEN [raised |-> FALSE, data |-> [i \in 1..Len(flat) |-> IF m[1] THEN 0 ELSE flat[i]]]
    ELSE [raised |-> TRUE, data |-> <<>>]

\* Tensor.view(batch_size, -1) of a flat tensor.
View(flat, B) ==
    LET w == Len(flat) \div B
    IN [b \in 1..B |-> [j \in 1..w |-> flat[(b - 1) * w + j]]]

\* punc[:, :cut].view(-1) of a contiguous (B, width) tensor: the slice keeps the
\* row stride width, so it can be flattened without a copy only when the rows
\* are not cut, or when at most one row or at most one column is left;
\* otherwise view raises a RuntimeError (in training and in evaluation mode).
SliceViewable(B, width, cut) == cut = width \/ B <= 1 \/ cut <= 1

\* nll(text, punc, text_lengths, punc_lengths, max_length), on the rows whose
\* unmasked cross entropy is ce; f1 is what f1_score returns in evaluation mode.
Nll(ce, lengths, max_length, train, f1) ==
    LET B == Len(ce)
        cut == Min(Len(ce[1]), CutLen(lengths, max_length))
        flat == Flatten([b \in 1..B |-> SubSeq(ce[b], 1, cut)])
        filled == MaskedFill(flat, Flatten(MakePadMask(lengths, PadMaskLen(lengths, max_length))))
    IN IF ~SliceViewable(B, Len(ce[1]), cut)
       THEN [raised |-> TRUE, nll |-> <<>>, lengths |-> lengths]
       ELSE IF ~train
       THEN [raised |-> FALSE, nll |-> [i \in 1..SumSeq(lengths) |-> f1], lengths |-> lengths]
       ELSE IF filled.raised
       THEN [raised |-> TRUE, nll |-> <<>>, lengths |-> lengths]
       ELSE [raised |-> FALSE, nll |-> View(filled.data, B), lengths |-> lengths]

\* The record kept of a call of nll.
Call(ce, lengths, max_length, res) ==
    [ce |-> ce, lengths |-> lengths, max_length |-> max_length, res |-> res]

\* The cross entropy of a padded batch: nonzero, different at every position.
Losses(lengths, width) ==
    [b \in 1..Len(lengths) |-> [j \in 1..width |-> b * (width + 1) + j]]

\* The predictor is not running.
CifIdle ==
    /\ prog = "idle"
    /\ in_hidden = Idle
    /\ in_alphas = Idle
    /\ mask = Idle
    /\ threshold = One
    /\ tail_threshold = One
    /\ hidden = Idle
    /\ alphas = Idle
    /\ token_num_floor = Idle
    /\ pc = "idle"
    /\ t = 0
    /\ integrate = Idle
    /\ frame = Idle
    /\ list_fires = Idle
    /\ list_frames = Idle
    /\ fires = Idle
    /\ frame_fires = Idle

InitScorer ==
    /\ CifIdle
    /\ \E n \in 1..MaxBatch : text_lengths \in [1..n -> 1..MaxTextLen]
    /\ \E pad \in 0..MaxPad : loss = Losses(text_lengths, MaxSeq(text_lengths) + pad)
    /\ entry \in {"nll", "batchify_nll"}
    /\ batch_size \in (IF entry = "nll" THEN {0} ELSE 1..(MaxBatch + 1))
    /\ training \in BOOLEAN
    /\ spc = "call"
    /\ start_idx = 0
    /\ nlls = <<>>
    /\ x_lengths = <<>>
    /\ out_nll = Idle
    /\ out_lengths = Idle
    /\ error = ""
    /\ last_call = Idle

total_num == Len(text_lengths)

\* The parameters of nll that have no default, in order (self is bound).
NllRequired == <<"text", "punc", "text_lengths", "punc_lengths">>

\* Python's binding of a call of nll with npos positional arguments and the
\* keyword arguments kw: the required parameters left without a value.  A call
\* that leaves one raises TypeError before the body of nll runs.
MissingArgs(npos, kw) ==
    {NllRequired[i] : i \in {j \in 1..Len(NllRequired) : j > npos}} \ kw

\* A call self.nll(...): the binding of the arguments, then the body.
CallNll(npos, kw, ce, lengths, max_length, train, f1) ==
    IF MissingArgs(npos, kw) # {}
    THEN [raised |-> TRUE, error |-> "TypeError", ran |-> FALSE,
          nll |-> <<>>, lengths |-> lengths]
    ELSE LET res == Nll(ce, lengths, max_length, train, f1)
         IN [raised |-> res.raised,
             error |-> IF res.raised THEN "RuntimeError" ELSE "",
             ran |-> TRUE, nll |-> res.nll, lengths |-> res.lengths]

\* The record of the latest call whose body ran.
Recorded(r, ce, lengths, max_length) ==
    IF r.ran
    THEN Call(ce, lengths, max_length,
              [raised |-> r.raised, nll |-> r.nll, lengths |-> r.lengths])
    ELSE last_call

\* Lines 129-131: the two assertions, then the return.
Return(nll, lens) ==
    IF Len(nll) = total_num /\ Len(lens) = total_num
    THEN /\ spc' = "done"
         /\ out_nll' = nll
         /\ out_lengths' = lens
         /\ error' = ""
    ELSE /\ spc' = "raised"
         /\ error' = "AssertionError"
         /\ UNCHANGED <<out_nll, out_lengths>>

\* nll called with its four positional arguments, as forward does (line 135:
\* max_length None), or by a caller that also gives max_length.
NllCall ==
    /\ UNCHANGED cifVars
    /\ entry = "nll"
    /\ spc = "call"
    /\ \E f1 \in F1Vals : \E max_length \in {<<>>, <<MaxSeq(text_lengths)>>} :
         LET r == CallNll(Len(NllRequired), {}, loss, text_lengths, max_length, training, f1)
         IN /\ last_call' = Recorded(r, loss, text_lengths, max_length)
            /\ spc' = IF r.raised THEN "raised" ELSE "done"
            /\ error' = r.error
    /\ UNCHANGED <<text_lengths, loss, entry, batch_size, training, start_idx, nlls,
                   x_lengths, out_nll, out_lengths>>

\* batchify_nll, lines 106-108 and 129-131: the batch fits one call of nll,
\* self.nll(text, punc, text_lengths).
BatchifyWhole ==
    /\ UNCHANGED cifVars
    /\ entry = "batchify_nll"
    /\ spc = "call"
    /\ total_num <= batch_size
    /\ \E f1 \in F1Vals :
         LET r == CallNll(3, {}, loss, text_lengths, <<>>, training, f1)
         IN /\ last_call' = Recorded(r, loss, text_lengths, <<>>)
            /\ IF r.raised
               THEN /\ spc' = "raised"
                    /\ error' = r.error
                    /\ UNCHANGED <<out_nll, out_lengths>>
               ELSE Return(r.nll, r.lengths)
    /\ UNCHANGED <<text_lengths, loss, entry, batch_size, training, start_idx, nlls,
                   x_lengths>>

\* batchify_nll, lines 110-114: the batch is cut into chunks.
BatchifyStart ==
    /\ UNCHANGED cifVars
    /\ entry = "batchify_nll"
    /\ spc = "call"
    /\ total_num > batch_size
    /\ nlls' = <<>>
    /\ x_lengths' = <<>>
    /\ start_idx' = 0
    /\ spc' = "chunks"
    /\ UNCHANGED <<text_lengths, loss, entry, batch_size, training, out_nll,
                   out_lengths, error, last_call>>

\* batchify_nll, lines 115-131: one chunk,
\* self.nll(batch_text, batch_punc, batch_text_lengths, max_length=max_length),
\* and after the last chunk torch.cat, the assertions and the return.
BatchifyChunk ==
    /\ UNCHANGED cifVars
    /\ spc = "chunks"
    /\ \E f1 \in F1Vals :
         LET max_length == MaxSeq(text_lengths)
             end_idx == Min(start_idx + batch_size, total_num)
             batch_loss == SubSeq(loss, start_idx + 1, end_idx)
             batch_text_lengths == SubSeq(text_lengths, start_idx + 1, end_idx)
             r == CallNll(3, {"max_length"}, batch_loss, batch_text_lengths,
                          <<max_length>>, training, f1)
         IN /\ last_call' = Recorded(r, batch_loss, batch_text_lengths, <<max_length>>)
            /\ IF r.raised
               THEN /\ spc' = "raised"
                    /\ error' = r.error
                    /\ UNCHANGED <<nlls, x_lengths, start_idx, out_nll, out_lengths>>
               ELSE /\ nlls' = Append(nlls, r.nll)
                    /\ x_lengths' = Append(x_lengths, r.lengths)
                    /\ start_idx' = end_idx
                    /\ IF end_idx = total_num
                       THEN Return(Flatten(nlls'), Flatten(x_lengths'))
                       ELSE UNCHANGED <<spc, error, out_nll, out_lengths>>
    /\ UNCHANGED <<text_lengths, loss, entry, batch_size, training>>

NextScorer == NllCall \/ BatchifyWhole \/ BatchifyStart \/ BatchifyChunk

SpecScorer == InitScorer /\ [][NextScorer]_vars

Next == TailProcessFn \/ CifBegin \/ CifLoop \/ CifFinish

Spec == Init /\ [][Next]_vars


-----------------------------------------------------------------------------
(* Properties of the predictor, checked under Spec.                        *)

\* cif was handed alphas and hidden of the same time length.
ShapesMatch == \A b \in 1..Len(alphas) : Len(alphas[b]) = LenTime(hidden)

\* Every alpha cif reads is at most lim.
AlphasAtMost(lim) ==
    \A b \in 1..Len(alphas) : \A s \in 1..Len(alphas[b]) : alphas[b][s] <= lim

\* The firing steps of row b of the returned fire trace, as a set.
FiredAt(b) == {s \in 1..Len(fires[b]) : fires[b][s] >= threshold}

\* The firing step of row b with k - 1 firing steps before it.
KthFire(b, k) == CHOOSE s \in FiredAt(b) : Cardinality({u \in FiredAt(b) : u < s}) = k - 1

\* C1, as stated: with threshold 1.0 and every alpha below 2 * threshold, each
\* row fires floor(sum of its alphas) times.
C1Original ==
    (pc = "done" /\ threshold = One /\ ShapesMatch /\ AlphasAtMost(2 * threshold - 1))
    => \A b \in 1..Len(alphas) :
          Cardinality(FiredAt(b)) = Floor(SumSeq(alphas[b]))

\* C1, amended: with threshold 1.0 and every alpha at most the threshold, each
\* row fires floor(sum of its alphas) times.
C1FiringsEqualFloor ==
    (pc = "done" /\ threshold = One /\ ShapesMatch /\ AlphasAtMost(threshold))
    => \A b \in 1..Len(alphas) :
          Cardinality(FiredAt(b)) = Floor(SumSeq(alphas[b]))

\* A row that fired twice, once with accumulated mass strictly over the threshold.
C1Witness ==
    /\ pc = "done" /\ threshold = One /\ ShapesMatch /\ AlphasAtMost(threshold)
    /\ \E b \in 1..Len(alphas) :
          /\ Cardinality(FiredAt(b)) >= 2
          /\ \E s \in FiredAt(b) : fires[b][s] > threshold

\* C2: token_embeddings is (batch, M, hidden) with M the largest firing count of
\* any row; row b holds its recorded frames at its firing steps, in time order,
\* then zeros.
C2PaddedToBatchMax ==
    pc = "done" =>
      LET B == Len(hidden)
          count == [b \in 1..B |-> Cardinality(FiredAt(b))]
      IN /\ Len(frame_fires) = B
         /\ \A b \in 1..B :
              /\ \A c \in 1..B : Len(frame_fires[b]) >= count[c]
              /\ \E c \in 1..B : Len(frame_fires[b]) = count[c]
              /\ \A k \in 1..Len(frame_fires[b]) :
                   /\ Len(frame_fires[b][k]) = HiddenDim
                   /\ k <= count[b] => frame_fires[b][k] = list_frames[KthFire(b, k)][b]
                   /\ k > count[b] => frame_fires[b][k] = Zeros(HiddenDim)

\* A batch whose first row fired, and fired less often than a later row.
C2Witness ==
    /\ pc = "done"
    /\ \E b \in 2..Len(hidden) :
          /\ Cardinality(FiredAt(1)) >= 1
          /\ Cardinality(FiredAt(b)) > Cardinality(FiredAt(1))
          /\ Len(frame_fires[1]) = Cardinality(FiredAt(b))

\* The value 0.5 in fixed-point units.
Half == One \div 2

\* The accumulator of row b before step s, and the step's completion.
AccBefore(b, s) == fires[b][s] - alphas[b][s]
CompletionAt(b, s) == One - AccBefore(b, s)

\* The firing step of row b before step s (0: none).
PrevFire(b, s) ==
    IF \E u \in FiredAt(b) : u < s
    THEN CHOOSE u \in FiredAt(b) : u < s /\ \A v \in FiredAt(b) : v < s => v <= u
    ELSE 0

\* The weight of frame u in the embedding emitted at firing step s of row b.
Weight(b, s, u) ==
    IF u = s THEN CompletionAt(b, s)
    ELSE IF u = PrevFire(b, s) THEN alphas[b][u] - CompletionAt(b, u)
    ELSE IF PrevFire(b, s) < u /\ u < s THEN alphas[b][u]
    ELSE 0

RECURSIVE WeightedSum(_, _, _, _)
WeightedSum(b, s, d, upto) ==
    IF upto = 0 THEN 0
    ELSE Weight(b, s, upto) * hidden[b][upto][d] + WeightedSum(b, s, d, upto - 1)

RECURSIVE WeightTotal(_, _, _)
WeightTotal(b, s, upto) ==
    IF upto = 0 THEN 0 ELSE Weight(b, s, upto) + WeightTotal(b, s, upto - 1)

\* C3: with threshold 1.0 and alphas in [0, 1], the embedding of a firing step is
\* remainder * frame[previous firing] + the alphas between times their frames +
\* completion * frame[firing step]; the weights are non-negative and sum to 1.
\* Alphas [1, 0, 1] give frame[0] and frame[2]; alphas [0.5, 0.5, 1] give
\* 0.5 * frame[0] + 0.5 * frame[1] and frame[2].
C3EmbeddingWeights ==
    (pc = "done" /\ threshold = One /\ ShapesMatch /\ AlphasAtMost(One))
    => /\ \A b \in 1..Len(hidden) : \A k \in 1..Cardinality(FiredAt(b)) :
            LET s == KthFire(b, k)
            IN /\ \A d \in 1..HiddenDim :
                    frame_fires[b][k][d] = WeightedSum(b, s, d, LenTime(hidden))
               /\ \A u \in 1..LenTime(hidden) : Weight(b, s, u) >= 0
               /\ WeightTotal(b, s, LenTime(hidden)) = One
       /\ (prog = "cif" /\ alphas = << <<One, 0, One>> >>)
            => frame_fires = << << [d \in 1..HiddenDim |-> One * hidden[1][1][d]],
                                   [d \in 1..HiddenDim |-> One * hidden[1][3][d]] >> >>
       /\ (prog = "cif" /\ alphas = << <<Half, Half, One>> >>)
            => frame_fires = << << [d \in 1..HiddenDim |->
                                       Half * hidden[1][1][d] + Half * hidden[1][2][d]],
                                   [d \in 1..HiddenDim |-> One * hidden[1][3][d]] >> >>

\* The run on alphas [0.5, 0.5, 1.0]: two tokens, the first built from two frames.
C3Witness ==
    /\ pc = "done" /\ prog = "cif" /\ threshold = One
    /\ alphas = << <<Half, Half, One>> >>
    /\ FiredAt(1) = {2, 3}
    /\ Len(frame_fires[1]) = 2

\* The caller's true length of row b: the number of ones of its mask.
TrueLen(b) == SumSeq(mask[b])

\* C4: tail_process_fn returns hidden and alphas of the same time length T + 1,
\* and alphas differs from the input extended by one zero only at index L_b,
\* where exactly tail_threshold is added.
C4TailAppendsOneStep ==
    (prog = "tail" /\ pc # "tail")
    => \A b \in 1..Len(in_alphas) :
          LET T == Len(in_alphas[b])
              ext == in_alphas[b] \o <<0>>
          IN /\ Len(hidden[b]) = T + 1
             /\ Len(alphas[b]) = T + 1
             /\ \A j \in 1..(T + 1) :
                   alphas[b][j] = ext[j] + (IF j = TrueLen(b) + 1 THEN tail_threshold ELSE 0)

\* The accumulator cif is left with on the caller's own input, per row.
Residual == LoopFrom(LoopInit(in_hidden), in_hidden, in_alphas, threshold, 0).integrate

\* C5: a row left with a residual r, 0 < r < threshold, fires exactly once more on
\* tail_process_fn's output than on the input; a row with r = 0 gains at most one.
C5TailEmitsOnce ==
    (prog = "tail" /\ pc = "done" /\ LenTime(in_hidden) >= 1)
    => \A b \in 1..Len(in_alphas) :
          LET before == FireCount(CifFires(in_hidden, in_alphas, threshold)[b], threshold)
              after == Cardinality(FiredAt(b))
          IN /\ (0 < Residual[b] /\ Residual[b] < threshold) => after = before + 1
             /\ Residual[b] = 0 => after <= before + 1

\* C9: on all-zero alphas of shape (B, T), T = 0 included, cif does not raise,
\* fire_trace is all zero of shape (B, T) and the token dimension is 0.
C9DegenerateInputs ==
    (prog = "cif" /\ pc \in {"done", "raised"} /\ AlphasAtMost(0))
    => /\ pc = "done"
       /\ Len(fires) = Len(alphas)
       /\ \A b \in 1..Len(alphas) :
            /\ fires[b] = Zeros(Len(alphas[b]))
            /\ Len(frame_fires[b]) = 0

\* C10: after every frame the accumulator is in [0, threshold): a firing step
\* leaves the post-add value minus the threshold, any other step the post-add
\* value.
C10AccumulatorRange ==
    (pc = "loop" /\ t >= 1)
    => \A b \in 1..Len(hidden) :
          /\ 0 <= integrate[b] /\ integrate[b] < threshold
          /\ integrate[b] = IF list_fires[t][b] >= threshold
                            THEN list_fires[t][b] - threshold
                            ELSE list_fires[t][b]

-----------------------------------------------------------------------------
(* Properties of the scorer, checked under SpecScorer.                     *)

\* C6: batchify_nll returns, in training and in evaluation mode, with nll and
\* lengths of first dimension total_num, the lengths those of the input in order.
C6OutputCoversBatch ==
    (entry = "batchify_nll" /\ spc \in {"done", "raised"})
    => /\ spc = "done"
       /\ Len(out_nll) = total_num
       /\ Len(out_lengths) = total_num
       /\ out_lengths = text_lengths

\* C7: for any chunk size the per-position loss batchify_nll returns is the one a
\* single call of nll on the whole batch returns, in shape and in value.
C7ChunkedEqualsWhole ==
    LET whole == Nll(loss, text_lengths, <<>>, TRUE, 0)
    IN (entry = "batchify_nll" /\ training /\ spc \in {"done", "raised"} /\ ~whole.raised)
       => /\ spc = "done"
          /\ out_nll = whole.nll

\* C8: the loss nll returns is (batch, length), 0.0 at every position at or beyond
\* the row's length and the cross entropy elsewhere, with max_length None or given
\* (stated for the calls whose cut text and punc can be flattened at all).
C8PaddingIsZero ==
    (/\ training
     /\ last_call # Idle
     /\ SliceViewable(Len(last_call.ce), Len(last_call.ce[1]),
                      Min(Len(last_call.ce[1]), CutLen(last_call.lengths, last_call.max_length))))
    => /\ ~last_call.res.raised
       /\ Len(last_call.res.nll) = Len(last_call.ce)
       /\ \A b \in 1..Len(last_call.res.nll) : \A j \in 1..Len(last_call.res.nll[b]) :
            last_call.res.nll[b][j] =
               IF j - 1 >= last_call.lengths[b] THEN 0 ELSE last_call.ce[b][j]

=============================================================================
